---- MODULE Spec2Model ----
(***************************************************************************)
(* Order lifecycle of the cafe ordering backend.                           *)
(*                                                                         *)
(* The repository holds several server files that expose the same routes   *)
(* (POST /api/orders, PATCH /api/orders/:id, PATCH /api/orders/:id/pay)    *)
(* over the same order store.  One of them is deployed; srv records which. *)
(*   "index_a"  src/index.js lines 1-560                                   *)
(*   "index_b"  src/index.js lines 561-1227 (geofenced admission)          *)
(*   "index_c"  src/index.js lines 1229-1508                               *)
(*   "part_001" src/unnamed/part_001                                       *)
(*   "part_000" src/unnamed/part_000 (no POST /api/orders: the orders it   *)
(*              serves are inserted by the create route of part_001, the   *)
(*              file it shares its queries with)                           *)
(*                                                                         *)
(* A handler is an async function: every `await supabase...` is a point    *)
(* where another request may run.  The tables, the menu catalog and the    *)
(* cafe settings are never written by any route, so reads of them commute  *)
(* with every other step; a handler is therefore split only between its    *)
(* read of the order row and its write of the order row.                   *)
(*                                                                         *)
(* Numbers sent by a client are kept in halves (n = 2 * value) so that a   *)
(* fractional value such as 1.5 can be told from an integer.               *)
(***************************************************************************)
EXTENDS Integers, Sequences, FiniteSets, TLC

VARIABLES srv, settings, zone, orders, slot, hits, now
vars == <<srv, settings, zone, orders, slot, hits, now>>

\* what no route writes: the deployed file, the cafe_settings row and the
\* time zone of the server process
config == <<srv, settings, zone>>

\* ---------------------------------------------------------------- bounds
MaxOrders == 2

\* ------------------------------------------------------------- JS values
Undef == [t |-> "undefined", n |-> 0]
NaN == [t |-> "NaN", n |-> 0]
Str == [t |-> "string", n |-> 0]
Num(h) == [t |-> "number", n |-> h]

Truthy(v) == (v.t = "number" /\ v.n # 0) \/ v.t = "string"

OrElse(v, d) == IF Truthy(v) THEN v ELSE d

Trunc(h) == IF h >= 0 THEN h \div 2 ELSE -((-h) \div 2)

parseInt(v) == IF v.t = "number" THEN Num(2 * Trunc(v.n)) ELSE NaN

parseFloat(v) == IF v.t = "number" THEN v ELSE NaN

StrOr(s, d) == IF s = "undefined" \/ s = "" THEN d ELSE s

\* ------------------------------------------------- external stores (read)
Tables == {1}

MenuIds == {1, 2}

Menu ==
  [i \in MenuIds |->
     IF i = 1 THEN [name |-> "Tea", price |-> Num(20), category |-> "Drinks"]
              ELSE [name |-> "Cake", price |-> Num(10), category |-> "Food"]]

PaymentTypes == {"UPI", "Cash", "Bank", "Card"}

\* cafe_settings row: latitude and longitude in units of 0.00001 degree,
\* radius in centimetres.  Requests are sent from points on the cafe's meridian.
Settings == [latitude |-> 1297000, longitude |-> 7759000,
             geofence_radius_meters |-> 10000]

\* the rows the cafe_settings table may hold: a cafe at 12.97 N or on the
\* equator, a radius of 100 m or of 0 m
CafeRows ==
  [latitude : {Settings.latitude, 0}, longitude : {Settings.longitude},
   geofence_radius_meters : {Settings.geofence_radius_meters, 0}]

\* -------------------------------------------------------- request inputs
\* item_id 0 stands for a line without item_id; item_id 3 is not in the menu.
Line(i, nm, pr, q, cat) ==
  [item_id |-> i, name |-> nm, price |-> pr, quantity |-> q, category |-> cat]

LHonest(i) == Line(i, Menu[i].name, Menu[i].price, Num(2 * (3 - i)), Menu[i].category)
LBare(i) == Line(i, "undefined", Undef, Undef, "undefined")
LNeg == Line(1, "Tea", Num(-10), Num(-2), "Drinks")
LFrac == Line(2, "undefined", Str, Num(3), "undefined")
LZero == Line(1, "Tea", Num(20), Num(0), "Drinks")
LSeven == Line(2, "7", Num(10), Num(4), "Food")

Lines == {LHonest(1), LNeg, LFrac, LBare(0), LBare(3)}

NotArray == [isArray |-> FALSE, lines |-> <<>>]
Arr(s) == [isArray |-> TRUE, lines |-> s]

Payloads ==
  {NotArray, Arr(<<>>)} \cup {Arr(<<l>>) : l \in Lines}
    \cup {Arr(<<LHonest(1), LHonest(2)>>), Arr(<<LHonest(1), LHonest(1)>>)}

NotesIn == {"undefined", "n"}

\* req.body.notes of an update: also the empty string
UpdateNotesIn == NotesIn \cup {""}
PayIn == {"undefined", "UPI", "Cash", "Wallet"}
TableIn == {0, 1, 2}
OrderIds == 1..MaxOrders
\* req.body.latitude / longitude: left out, or a number (0.00001 degree)
Lats == {Undef, Num(Settings.latitude), Num(Settings.latitude + 200)}
Lons == {Undef, Num(Settings.longitude)}

\* the same, with a non-numeric string, the number 0, and points 50 and 200
\* units (55 m and 222 m) north of either cafe
GeoLats ==
  {Undef, Str, Num(0), Num(50), Num(200), Num(Settings.latitude),
   Num(Settings.latitude + 50), Num(Settings.latitude + 200)}
GeoLons == {Undef, Str, Num(0), Num(Settings.longitude)}

\* POST /api/orders: req.body and the x-waiter-auth header
CreateReqs ==
  [table_id : TableIn, items : Payloads, notes : NotesIn, waiter : BOOLEAN,
   latitude : Lats, longitude : Lons]

\* PATCH /api/orders/:id: req.body
UpdateReqs == [items : Payloads, notes : UpdateNotesIn]

\* the requests sent while other requests are in flight
ConcCreateReqs ==
  [table_id : Tables, items : {NotArray, Arr(<<LHonest(1)>>)}, notes : {"undefined"},
   waiter : BOOLEAN, latitude : {Num(Settings.latitude + 200)},
   longitude : {Num(Settings.longitude)}]

\* the requests sent in quick succession
RateCreateReqs ==
  [table_id : Tables, items : {NotArray, Arr(<<LHonest(1)>>)}, notes : {"undefined"},
   waiter : {TRUE}, latitude : {Undef}, longitude : {Undef}]

\* the requests sent to fill the store the analytics read
StatsCreateReqs ==
  [table_id : Tables,
   items : {Arr(<<LHonest(1), LHonest(2)>>), Arr(<<LHonest(1), LSeven>>),
            Arr(<<LZero>>), Arr(<<LFrac>>)},
   notes : {"undefined"}, waiter : {TRUE}, latitude : {Undef}, longitude : {Undef}]

StatsUpdateReqs == [items : {NotArray, Arr(<<LHonest(2)>>)}, notes : {"undefined"}]

StatsPayIn == {"UPI"}

\* the requests sent to try the location check
GeoCreateReqs ==
  [table_id : Tables, items : {Arr(<<LHonest(1)>>)}, notes : {"undefined"},
   waiter : BOOLEAN, latitude : GeoLats, longitude : GeoLons]

ConcUpdateReqs ==
  [items : {NotArray, Arr(<<LHonest(1), LHonest(2)>>)}, notes : {"undefined"}]

ConcPayIn == {"undefined", "UPI", "Cash"}

\* ------------------------------------------------------ handler helpers
Range(s) == {s[k] : k \in 1..Len(s)}

\* items.map(item => item.item_id)
ItemIdsOf(lines) == [k \in 1..Len(lines) |-> lines[k].item_id]

IsId(i) == i # 0

\* supabase.from('menu_items').select('id').in('id', ids): the rows whose id
\* is one of ids, each row once
menuItems(ids) == {i \in MenuIds : i \in Range(ids)}

\* calculateDistance for two points on one meridian: with lon1 = lon2 the
\* haversine term a is sin^2(dphi/2), so c = |dphi| and the result is
\* R * |dphi|, here in centimetres (R * pi / 180 = 111194.93 m per degree).
Abs(x) == IF x < 0 THEN -x ELSE x

\* a non-numeric argument makes every product NaN, and so the result
calculateDistance(lat1, lon1, lat2, lon2) ==
  CASE \E v \in {lat1, lon1, lat2, lon2} : v.t # "number" -> NaN
    [] lon1.n = lon2.n ->
         LET d == Abs(lat2.n - lat1.n)
         IN Num((d \div 1000) * 111195 + ((d % 1000) * 111195) \div 1000)

\* distance > radius: false when distance is NaN
Greater(v, x) == v.t = "number" /\ v.n > x

\* items.map(item => ({ item_id, name: item.name || 'Unknown', ... }))
TrustLine(l) ==
  [item_id |-> l.item_id,
   name |-> StrOr(l.name, "Unknown"),
   price |-> OrElse(parseFloat(l.price), Num(0)),
   quantity |-> OrElse(parseInt(l.quantity), Num(2)),
   category |-> StrOr(l.category, "")]

validItems(lines) == [k \in 1..Len(lines) |-> TrustLine(lines[k])]

\* items.map(item => { menuItem = menuItems.find(...); ... }).filter(non-null)
AuthLine(l) ==
  [item_id |-> l.item_id,
   name |-> Menu[l.item_id].name,
   price |-> Menu[l.item_id].price,
   quantity |-> OrElse(l.quantity, Num(2)),
   category |-> StrOr(Menu[l.item_id].category, "")]

InMenu(l) == l.item_id \in MenuIds

normalizedItems(lines) ==
  LET found == SelectSeq(lines, InMenu)
  IN [k \in 1..Len(found) |-> AuthLine(found[k])]

\* ------------------------------------------------------------ order rows
Row(t, its, nt) ==
  [table_id |-> t, items |-> its, status |-> "pending",
   payment_type |-> "null", notes |-> StrOr(nt, "null")]

Servers == {"index_a", "index_b", "index_c", "part_001"}

\* the file whose POST /api/orders fills the store of server file s
CreateFile(s) == IF s = "part_000" THEN "part_001" ELSE s

\* the row as the store keeps it: created_at is the column's default, the
\* instant of the insert; items_array tells whether the items column holds a JSON
\* array (its elements are in items)
Stored(row, day) == row @@ [created_at |-> day, items_array |-> TRUE]

\* ------------------------------------------- what a request is, as sent
\* (recorded with the response; the handlers never read these)
ItemsClass(p) ==
  IF ~p.isArray THEN "not_a_list"
  ELSE IF p.lines = <<>> THEN "empty"
  ELSE IF \E k \in 1..Len(p.lines) : p.lines[k].item_id = 0 THEN "no_item_id"
  ELSE IF \E k \in 1..Len(p.lines) : p.lines[k].item_id \notin MenuIds THEN "unknown_item"
  ELSE IF \E j, k \in 1..Len(p.lines) : j # k /\ p.lines[j].item_id = p.lines[k].item_id
       THEN "repeated_item"
  ELSE "distinct_known"

Sent(t, p, waiter, lat, lon) ==
  [table |-> IF t = 0 THEN "none" ELSE IF t \in Tables THEN "exists" ELSE "unknown",
   items |-> ItemsClass(p),
   origin |-> IF waiter THEN "staff"
              ELSE IF lat = Undef \/ lon = Undef THEN "no_coords"
              ELSE IF lat = Num(Settings.latitude) /\ lon = Num(Settings.longitude)
                   THEN "cafe"
              ELSE "far",
   waiter |-> waiter, latitude |-> lat, longitude |-> lon]

NoSent == Sent(0, NotArray, FALSE, Undef, Undef)

\* An address as it reaches the guard: a dotted IPv4 address (its four
\* numbers in o), or a text that is no address: "undefined" (not there), ""
\* (empty), "unknown", "garbage".
V4(a, b, c, d) == [t |-> "v4", o |-> <<a, b, c, d>>]
Text(x) == [t |-> x, o |-> <<>>]

NoIp == [xff |-> Text("undefined"), remote |-> Text("undefined")]

\* A client's request in flight.  pc, op, id, items, notes and ptype are the
\* handler's position and locals; code is the response.  was is the status the
\* addressed order had when the request arrived, at the status and had the
\* notes it had when the handler wrote it, sent the class of the request: the
\* handlers read none of the four.
Idle ==
  [pc |-> "idle", op |-> "none", id |-> 0, items |-> <<>>, notes |-> "undefined",
   ptype |-> "undefined", code |-> "none", was |-> "none", at |-> "none",
   had |-> "none",
   sent |-> NoSent, ip |-> NoIp, isArray |-> TRUE,
   query |-> [startDate |-> 0, endDate |-> 0, today |-> 0], answer |-> [t |-> "none", n |-> 0, d |-> 1],
   label |-> ""]

StatusOf(store, id) == IF id \in DOMAIN store THEN store[id].status ELSE "none"

\* ------------------------------------------------- POST /api/orders
\* the 400 of the input check
CreateInputBad(s, t, p) ==
  IF s = "part_001" THEN t = 0 \/ ~p.isArray \/ Len(p.lines) = 0
  ELSE t = 0 \/ ~p.isArray

\* the location check of index_b; "ok" when the request may proceed
Admission(s, cfg, waiter, lat, lon) ==
  IF s # "index_b" \/ waiter THEN "ok"
  ELSE IF ~Truthy(lat) \/ ~Truthy(lon) THEN "coords_required"
  ELSE IF Greater(calculateDistance(lat, lon, Num(cfg.latitude), Num(cfg.longitude)),
                  cfg.geofence_radius_meters) THEN "forbidden"
  ELSE "ok"

\* mutant: the table lookup is skipped
TableCheck_Skipped(t) == "ok"

TableCheck(t) == IF t \in Tables THEN "ok" ELSE "invalid_table"

\* the item validation of each file; "ok" when the lines are accepted
ItemCheck(s, lines) ==
  LET ids == ItemIdsOf(lines)
      itemIds == SelectSeq(ids, IsId)
  IN CASE s = "index_b" ->
            IF Len(itemIds) # Len(lines) THEN "missing_item_id"
            ELSE IF Cardinality(menuItems(itemIds)) # Len(itemIds) THEN "invalid_items"
            ELSE "ok"
       [] s \in {"index_a", "index_c"} ->
            IF Cardinality(menuItems(ids)) # Len(lines) THEN "invalid_items" ELSE "ok"
       [] OTHER -> "ok"

\* mutant: the table lookup comes before the location check
CreateCode_TableFirst(s, cfg, t, p, waiter, lat, lon) ==
  IF CreateInputBad(s, t, p) THEN "bad_request"
  ELSE IF TableCheck(t) # "ok" THEN TableCheck(t)
  ELSE IF Admission(s, cfg, waiter, lat, lon) # "ok"
       THEN Admission(s, cfg, waiter, lat, lon)
  ELSE ItemCheck(s, p.lines)

CreateCode(s, cfg, t, p, waiter, lat, lon) ==
  IF CreateInputBad(s, t, p) THEN "bad_request"
  ELSE IF Admission(s, cfg, waiter, lat, lon) # "ok"
       THEN Admission(s, cfg, waiter, lat, lon)
  ELSE IF TableCheck(t) # "ok" THEN TableCheck(t)
  ELSE ItemCheck(s, p.lines)

\* the row handed to insert
CreateRow(s, t, p, nt) ==
  CASE s = "index_b" -> Row(t, validItems(p.lines), nt)
    [] s = "part_001" -> Row(t, validItems(p.lines), "undefined")
    [] OTHER -> Row(t, p.lines, nt)

\* `ORD-${Math.floor(1000 + Math.random() * 9000)}`: the number drawn, one of
\* 1000..9999 (two of them here)
Draws == {1000, 1001}

\* the order_number of a row the insert does not give one: the column's
\* default, a number no stored row has
ColumnDefault(store) == Len(store) + 1

\* the order_number values an insert by file s may carry
order_number(s, store) == IF s = "part_001" THEN Draws ELSE {ColumnDefault(store)}

\* mutant: the store has no uniqueness constraint on order_number
Unique_NotEnforced(store, n) == TRUE

\* the store's uniqueness constraint on order_number: the insert of a number
\* that a stored row has fails
Unique(store, n) == \A i \in DOMAIN store : store[i].order_number # n

Numbered(row, n) == row @@ [order_number |-> n]

\* mutant: the row is inserted before the table and the items are checked
Create_InsertsBeforeChecks(r, Reqs, capacity) ==
  /\ slot[r].pc = "idle"
  /\ \E q \in Reqs :
       LET code == CreateCode(CreateFile(srv), settings, q.table_id, q.items,
                              q.waiter, q.latitude, q.longitude)
           done == [Idle EXCEPT !.pc = "done", !.op = "create", !.code = code,
                                !.sent = Sent(q.table_id, q.items, q.waiter,
                                              q.latitude, q.longitude)]
       IN IF code \in {"ok", "invalid_table", "invalid_items"}
          THEN \E n \in order_number(CreateFile(srv), orders) :
               /\ Len(orders) < capacity
               /\ Unique(orders, n)
               /\ orders' = Append(orders,
                                   Numbered(Stored(CreateRow(CreateFile(srv), q.table_id,
                                                             q.items, q.notes), now), n))
               /\ slot' = [slot EXCEPT ![r] = [done EXCEPT !.id = Len(orders) + 1]]
          ELSE /\ orders' = orders
               /\ slot' = [slot EXCEPT ![r] = done]
  /\ UNCHANGED config

\* the handler: the checks, then one insert; an insert the store refuses is
\* answered 500 and leaves no row
Create(r, Reqs, capacity) ==
  /\ slot[r].pc = "idle"
  /\ \E q \in Reqs :
       LET code == CreateCode(CreateFile(srv), settings, q.table_id, q.items,
                              q.waiter, q.latitude, q.longitude)
           done == [Idle EXCEPT !.pc = "done", !.op = "create", !.code = code,
                                !.sent = Sent(q.table_id, q.items, q.waiter,
                                              q.latitude, q.longitude)]
       IN IF code = "ok"
          THEN \E n \in order_number(CreateFile(srv), orders) :
               IF Unique(orders, n)
               THEN /\ Len(orders) < capacity
                    /\ orders' = Append(orders,
                                        Numbered(Stored(CreateRow(CreateFile(srv), q.table_id,
                                                                  q.items, q.notes), now), n))
                    /\ slot' = [slot EXCEPT ![r] = [done EXCEPT !.id = Len(orders) + 1]]
               ELSE /\ orders' = orders
                    /\ slot' = [slot EXCEPT ![r] = [done EXCEPT !.code = "internal"]]
          ELSE /\ orders' = orders
               /\ slot' = [slot EXCEPT ![r] = done]
  /\ UNCHANGED config

\* ------------------------------------------------- PATCH /api/orders/:id
UpdateInputBad(s, p) ==
  CASE s = "part_001" -> ~p.isArray \/ Len(p.lines) = 0
    [] s = "part_000" -> FALSE
    [] OTHER -> ~p.isArray

\* the read of the order row and the checks that follow it
UpdateCode(s, store, id, p) ==
  IF s = "part_000" THEN "ok"
  ELSE IF UpdateInputBad(s, p) THEN "bad_request"
  ELSE IF id \notin DOMAIN store THEN "not_found"
  ELSE IF s # "part_001" /\ store[id].status # "pending" THEN "not_pending"
  ELSE IF ItemCheck(s, p.lines) # "ok" THEN ItemCheck(s, p.lines)
  ELSE IF s = "index_a" /\ Len(normalizedItems(p.lines)) # Len(p.lines) THEN "invalid_items"
  ELSE "ok"

\* the items handed to update
UpdateItems(s, lines) ==
  CASE s = "index_a" -> normalizedItems(lines)
    [] s \in {"index_b", "part_001"} -> validItems(lines)
    [] OTHER -> lines

\* mutant: notes is sent as it came, and JSON leaves an undefined key out
WrittenNotes_AsSent(o, nt) == IF nt = "undefined" THEN o.notes ELSE nt

\* notes: notes || null, the value row o gets
WrittenNotes(o, nt) == StrOr(nt, "null")

\* mutant: the update also sends status: 'pending'
UpdatePatch_ResetsStatus(s, o, its, nt) ==
  IF s \in {"part_001", "part_000"} THEN [o EXCEPT !.items = its, !.status = "pending"]
  ELSE [o EXCEPT !.items = its, !.notes = StrOr(nt, "null"), !.status = "pending"]

\* .update({ items, notes: notes || null }).eq('id', id); part_001 and
\* part_000 send { items } only
UpdatePatch(s, o, its, nt) ==
  IF s \in {"part_001", "part_000"} THEN [o EXCEPT !.items = its]
  ELSE [o EXCEPT !.items = its, !.notes = WrittenNotes(o, nt)]

BeginUpdate(r, Reqs) ==
  /\ slot[r].pc = "idle"
  /\ \E id \in OrderIds, q \in Reqs :
       LET p == q.items
           nt == q.notes
           code == UpdateCode(srv, orders, id, p)
           base == [Idle EXCEPT !.op = "update", !.id = id, !.was = StatusOf(orders, id),
                                !.sent = Sent(0, p, FALSE, Undef, Undef)]
       IN slot' = [slot EXCEPT ![r] =
                     IF code = "ok"
                     THEN [base EXCEPT !.pc = "write",
                                       !.items = UpdateItems(srv, p.lines),
                                       !.isArray = p.isArray,
                                       !.notes = nt]
                     ELSE [base EXCEPT !.pc = "done", !.code = code]]
  /\ UNCHANGED <<config, orders>>

\* .update(...).eq('id', id).select(...).single(): with no row of that id
\* (which only part_000, having read nothing, can meet) single() reports an
\* error and the handler answers 500
WriteUpdate(r) ==
  /\ slot[r].pc = "write"
  /\ slot[r].op = "update"
  /\ LET id == slot[r].id
     IN IF id \in DOMAIN orders
        THEN /\ orders' = [orders EXCEPT
                             ![id] = [UpdatePatch(srv, @, slot[r].items, slot[r].notes)
                                        EXCEPT !.items_array = slot[r].isArray]]
             /\ slot' = [slot EXCEPT ![r] =
                           [@ EXCEPT !.pc = "done", !.code = "ok",
                                     !.at = orders[id].status,
                                     !.had = orders[id].notes,
                                     !.items = <<>>, !.notes = "undefined",
                                     !.isArray = TRUE]]
        ELSE /\ orders' = orders
             /\ slot' = [slot EXCEPT ![r] =
                           [@ EXCEPT !.pc = "done", !.code = "internal",
                                     !.items = <<>>, !.notes = "undefined",
                                     !.isArray = TRUE]]
  /\ UNCHANGED config

\* --------------------------------------------- PATCH /api/orders/:id/pay
PayInputBad(s, pt) ==
  CASE s \in {"index_a", "index_b"} -> pt = "undefined" \/ pt \notin PaymentTypes
    [] s = "part_001" -> pt = "undefined"
    [] OTHER -> FALSE

PayCode(s, store, id, pt) ==
  IF s = "part_000" THEN "ok"
  ELSE IF PayInputBad(s, pt) THEN "bad_request"
  ELSE IF id \notin DOMAIN store THEN "not_found"
  ELSE "ok"

\* .update({ status: 'paid', payment_type }).eq('id', id); index_c sends
\* { status: 'paid' } only, and so does part_000 when payment_type is
\* undefined (JSON leaves the key out)
PayPatch(s, o, pt) ==
  IF s = "index_c" \/ (s = "part_000" /\ pt = "undefined")
  THEN [o EXCEPT !.status = "paid"]
  ELSE [o EXCEPT !.status = "paid", !.payment_type = pt]

BeginPay(r, Reqs) ==
  /\ slot[r].pc = "idle"
  /\ \E id \in OrderIds, pt \in Reqs :
       LET code == PayCode(srv, orders, id, pt)
           base == [Idle EXCEPT !.op = "pay", !.id = id, !.was = StatusOf(orders, id),
                                !.ptype = pt]
       IN slot' = [slot EXCEPT ![r] =
                     IF code = "ok" THEN [base EXCEPT !.pc = "write"]
                     ELSE [base EXCEPT !.pc = "done", !.code = code]]
  /\ UNCHANGED <<config, orders>>

WritePay(r) ==
  /\ slot[r].pc = "write"
  /\ slot[r].op = "pay"
  /\ LET id == slot[r].id
     IN IF id \in DOMAIN orders
        THEN /\ orders' = [orders EXCEPT ![id] = PayPatch(srv, @, slot[r].ptype)]
             /\ slot' = [slot EXCEPT ![r] =
                           [@ EXCEPT !.pc = "done", !.code = "ok",
                                     !.at = orders[id].status]]
        ELSE /\ orders' = orders
             /\ slot' = [slot EXCEPT ![r] = [@ EXCEPT !.pc = "done", !.code = "internal"]]
  /\ UNCHANGED config

\* res.json(...) / res.status(...).json(...): the response leaves, the client
\* may send its next request
Respond(r) ==
  /\ slot[r].pc = "done"
  /\ slot' = [slot EXCEPT ![r] = Idle]
  /\ UNCHANGED <<config, orders>>

\* ------------------------------------------------- /api/admin/analytics
\* Amounts: a price and a quantity are kept in halves, so a product of the
\* two (and a revenue) is in quarters; a count of items is in halves.

\* a * b on two JavaScript values: NaN unless both are numbers
Times(a, b) == IF a.t = "number" /\ b.t = "number" THEN Num(a.n * b.n) ELSE NaN

\* a + b: a number for two numbers; the concatenation (a string) when either
\* is a string; NaN otherwise
Plus(a, b) ==
  IF a.t = "number" /\ b.t = "number" THEN Num(a.n + b.n)
  ELSE IF a.t = "string" \/ b.t = "string" THEN Str
  ELSE NaN

\* Time is counted in half hours of UTC: At(d, h, m) is day d, h o'clock and
\* m half hours.
At(d, h, m) == 48 * d + 2 * h + m

\* the offset of India Standard Time (5 h 30): the +5 and +30 of index_a and
\* part_001
IST == At(0, 5, 1)

\* the instants at which requests arrive: 02:00 and 20:00 UTC of day 1 (07:30
\* of day 1 and 01:30 of day 2 in IST), and 02:00 UTC of day 2
Instants == {At(1, 2, 0), At(1, 20, 0), At(2, 2, 0)}
Start == At(1, 2, 0)

\* the time zone of the server process (what getHours() goes by): UTC or IST
ServerZones == {0, IST}

UtcDay(t) == t \div 48
HourIn(t, offset) == ((t + offset) \div 2) % 24

\* req.query.startDate / endDate: an instant, or 0 when left out
DateIn == {0, At(1, 2, 0), At(1, 20, 0)}
Queries == [startDate : DateIn, endDate : DateIn]

\* .eq('status', 'paid') and the created_at filter.  Without both dates
\* index_a and part_000 take the UTC day of new Date(); index_b and part_001
\* apply no filter.
Matches(s, o, q, today) ==
  /\ o.status = "paid"
  /\ IF q.startDate # 0 /\ q.endDate # 0
     THEN q.startDate <= o.created_at /\ o.created_at <= q.endDate
     ELSE s \in {"index_a", "part_000"} => UtcDay(o.created_at) = UtcDay(today)

\* the rows the query returns
Data(s, store, q, today) == SelectSeq(store, LAMBDA o : Matches(s, o, q, today))

\* (item.price || 0) * (item.quantity || 1); index_a and part_000 have
\* item.price * (item.quantity || 1)
LineRevenue(s, l) ==
  IF s \in {"index_a", "part_000"} THEN Times(l.price, OrElse(l.quantity, Num(2)))
  ELSE Times(OrElse(l.price, Num(0)), OrElse(l.quantity, Num(2)))

\* item.quantity || 1; part_001 has parseInt(item.quantity) || 1
LineQuantity(s, l) ==
  IF s = "part_001" THEN OrElse(parseInt(l.quantity), Num(2))
  ELSE OrElse(l.quantity, Num(2))

\* order.items.reduce((s, item) => s + f(item), 0), from the left
RECURSIVE ReduceLines(_, _, _, _)
ReduceLines(s, metric, lines, acc) ==
  IF lines = <<>> THEN acc
  ELSE ReduceLines(s, metric, Tail(lines),
                   Plus(acc, IF metric = "total-items-sold"
                             THEN LineQuantity(s, Head(lines))
                             ELSE LineRevenue(s, Head(lines))))

\* data.reduce((sum, order) => ..., 0): an order whose items is not an array
\* is skipped; index_a has no such test and order.items.reduce throws
RECURSIVE ReduceOrders(_, _, _, _)
ReduceOrders(s, metric, data, sum) ==
  IF data = <<>> THEN sum
  ELSE IF ~Head(data).items_array
       THEN IF s = "index_a" THEN [t |-> "throws", n |-> 0]
            ELSE ReduceOrders(s, metric, Tail(data), sum)
  ELSE ReduceOrders(s, metric, Tail(data),
                    Plus(sum, ReduceLines(s, metric, Head(data).items, Num(0))))

\* a quotient n / d of two numbers, kept as the pair
Ratio(v, d) == [t |-> v.t, n |-> v.n, d |-> d]
Whole(v) == Ratio(v, 1)

\* res.json({ totalOrders: count || 0 })
totalOrders(s, data) == Whole(Num(Len(data)))

\* res.json({ totalRevenue: totalRevenue || 0 }); part_000 sends totalRevenue
totalRevenue(s, data) ==
  LET sum == ReduceOrders(s, "total-revenue", data, Num(0))
  IN IF s = "part_000" \/ sum.t = "throws" THEN Whole(sum)
     ELSE Whole(OrElse(sum, Num(0)))

\* res.json({ totalItemsSold: totalItemsSold || 0 }); index_a and part_000
\* send totalItemsSold
totalItemsSold(s, data) ==
  LET sum == ReduceOrders(s, "total-items-sold", data, Num(0))
  IN IF s \in {"index_a", "part_000"} \/ sum.t = "throws" THEN Whole(sum)
     ELSE Whole(OrElse(sum, Num(0)))

\* index_b, part_001: 0 for no rows, else (totalRevenue / data.length) || 0;
\* index_a: totalOrders > 0 ? totalRevenue / totalOrders : 0 with
\* totalOrders = data.length; part_000: the same with totalOrders the number
\* of rows whose items is an array
aov(s, data) ==
  LET sum == ReduceOrders(s, "total-revenue", data, Num(0))
      listed == SelectSeq(data, LAMBDA o : o.items_array)
  IN CASE sum.t = "throws" -> Whole(sum)
       [] s = "part_000" ->
            IF Len(listed) > 0 THEN Ratio(sum, Len(listed)) ELSE Whole(Num(0))
       [] s = "index_a" ->
            IF Len(data) > 0 THEN Ratio(sum, Len(data)) ELSE Whole(Num(0))
       [] OTHER ->
            IF Len(data) = 0 THEN Whole(Num(0))
            ELSE IF Truthy(sum) THEN Ratio(sum, Len(data)) ELSE Whole(Num(0))

\* item.name || 'Unknown'; index_a has item.name (a missing name is the
\* key "undefined")
LineName(s, l) == IF s = "index_a" THEN l.name ELSE StrOr(l.name, "Unknown")

\* itemCounts[name] = (itemCounts[name] || 0) + quantity, itemCounts being
\* kept as the list of its keys in the order they were first set
AddCount(counts, name, q) ==
  IF \E k \in 1..Len(counts) : counts[k].name = name
  THEN [k \in 1..Len(counts) |->
          IF counts[k].name = name
          THEN [name |-> name, totalSold |-> Plus(OrElse(counts[k].totalSold, Num(0)), q)]
          ELSE counts[k]]
  ELSE Append(counts, [name |-> name, totalSold |-> Plus(Num(0), q)])

RECURSIVE CountLines(_, _, _)
CountLines(s, lines, counts) ==
  IF lines = <<>> THEN counts
  ELSE CountLines(s, Tail(lines),
                  AddCount(counts, LineName(s, Head(lines)), LineQuantity(s, Head(lines))))

\* data.forEach(order => order.items.forEach(...)); an order whose items is
\* not an array is skipped
RECURSIVE itemCounts(_, _, _)
itemCounts(s, data, counts) ==
  IF data = <<>> THEN counts
  ELSE IF ~Head(data).items_array THEN itemCounts(s, Tail(data), counts)
  ELSE itemCounts(s, Tail(data), CountLines(s, Head(data).items, counts))

\* Object.entries(itemCounts): the keys that are array indices first, in
\* ascending numeric order, then the other keys in the order they were set
IndexNames == <<"7", "10">>

Entries(counts) ==
  LET IsFirst(e) == e.name = IndexNames[1]
      IsSecond(e) == e.name = IndexNames[2]
      IsOther(e) == e.name \notin Range(IndexNames)
  IN SelectSeq(counts, IsFirst) \o SelectSeq(counts, IsSecond) \o SelectSeq(counts, IsOther)

\* entries.reduce((max, [name, totalSold]) =>
\*   totalSold > (max.totalSold || 0) ? { name, totalSold } : max, start)
RECURSIVE ReduceEntries(_, _)
ReduceEntries(entries, best) ==
  IF entries = <<>> THEN best
  ELSE ReduceEntries(Tail(entries),
                     IF Greater(Head(entries).totalSold, OrElse(best.totalSold, Num(0)).n)
                     THEN Head(entries) ELSE best)

\* the start value is { name: 'N/A', totalSold: 0 }; index_a has name: '' and
\* no test of order.items, whose forEach throws when items is not an array
mostSoldItem(s, data) ==
  IF s = "index_a" /\ \E i \in 1..Len(data) : ~data[i].items_array
  THEN [name |-> "", totalSold |-> [t |-> "throws", n |-> 0]]
  ELSE
  ReduceEntries(Entries(itemCounts(s, data, <<>>)),
                [name |-> IF s = "index_a" THEN "" ELSE "N/A", totalSold |-> Num(0)])

\* the hour an order is counted under: getHours() goes by the server's zone;
\* index_a and part_001 add 5 h 30 first; part_000 has getUTCHours()
HourOf(s, z, t) ==
  CASE s = "part_000" -> HourIn(t, 0)
    [] s \in {"index_a", "part_001"} -> HourIn(t, z + IST)
    [] OTHER -> HourIn(t, z)

ordersByHour(s, z, data) ==
  [h \in 0..23 |-> Cardinality({i \in 1..Len(data) : HourOf(s, z, data[i].created_at) = h})]

\* the first index that holds the largest count (index 0 when all are 0)
peakHourIndex(counts) ==
  CHOOSE h \in 0..23 :
    /\ \A g \in 0..23 : counts[g] <= counts[h]
    /\ \A g \in 0..(h - 1) : counts[g] < counts[h]

\* `${h}:00-${h + 1}:00`, or 'N/A' when the largest count is 0; part_000 has
\* `${h}:00`; index_a has `${h}:00`, and 'N/A' only for index -1, which
\* indexOf never gives here
peakHour(s, z, data) ==
  LET counts == ordersByHour(s, z, data)
      h == peakHourIndex(counts)
  IN CASE s = "index_a" -> ToString(h) \o ":00"
       [] counts[h] = 0 -> "N/A"
       [] s = "part_000" -> ToString(h) \o ":00"
       [] OTHER -> ToString(h) \o ":00-" \o ToString(h + 1) \o ":00"

Metrics ==
  {"total-orders", "total-revenue", "average-order-value", "total-items-sold",
   "most-sold-item", "peak-hours"}

\* the name or the label sent in the response, "" when the metric has none
Label(s, z, metric, data) ==
  CASE metric = "most-sold-item" -> mostSoldItem(s, data).name
    [] metric = "peak-hours" -> peakHour(s, z, data)
    [] OTHER -> ""

Answer(s, metric, data) ==
  CASE metric = "total-orders" -> totalOrders(s, data)
    [] metric = "total-revenue" -> totalRevenue(s, data)
    [] metric = "average-order-value" -> aov(s, data)
    [] metric = "total-items-sold" -> totalItemsSold(s, data)
    [] metric = "most-sold-item" -> Whole(mostSoldItem(s, data).totalSold)
    [] OTHER -> Whole(Num(0))

\* GET /api/admin/analytics/<metric>?startDate=..&endDate=..: one query, then
\* the computation; index_c has no such route.  query keeps req.query and the
\* day new Date() gave.
Analytics(r) ==
  /\ slot[r].pc = "idle"
  /\ srv # "index_c"
  /\ \E metric \in Metrics, q \in Queries :
       slot' = [slot EXCEPT ![r] =
                  [Idle EXCEPT !.pc = "done", !.op = metric, !.code = "ok",
                               !.query = [startDate |-> q.startDate,
                                          endDate |-> q.endDate, today |-> now],
                               !.answer = Answer(srv, metric, Data(srv, orders, q, now)),
                               !.label = Label(srv, zone, metric,
                                               Data(srv, orders, q, now))]]
  /\ UNCHANGED <<config, orders>>

\* time passes
Tick ==
  /\ \E t \in Instants : t > now /\ now' = t
  /\ UNCHANGED <<config, orders, slot, hits>>

\* ------------------------------------------------- restrictToWifi
\* the two files that hold the guard
Guards == {"restrictToWifi", "part_002"}

\* process.env.CAFE_WIFI_SUBNET || '192.168.0.0/24' ('192.168.1.0/24' in
\* part_002): the network address, the prefix being 24 bits
CAFE_WIFI_SUBNET(s) == IF s = "part_002" THEN <<192, 168, 1>> ELSE <<192, 168, 0>>

\* first entry of x-forwarded-for, then the socket's address
XffIn == {Text("undefined"), Text(""), Text("garbage"), Text("unknown"),
          V4(192, 168, 0, 7), V4(192, 168, 1, 7), V4(8, 8, 8, 8)}
RemoteIn == {Text("undefined"), V4(192, 168, 0, 7), V4(192, 168, 1, 7),
             V4(10, 0, 0, 7), V4(8, 8, 8, 8)}

Absent(a) == a.t \in {"undefined", ""}

\* xForwardedFor?.split(',')[0].trim() || req.socket.remoteAddress || 'unknown'
\* (part_002 has no 'unknown')
clientIp(s, xff, remote) ==
  IF ~Absent(xff) THEN xff
  ELSE IF ~Absent(remote) THEN remote
  ELSE IF s = "part_002" THEN Text("undefined")
  ELSE Text("unknown")

\* ip.isPrivate: the private IPv4 ranges; no match for a text that is no address
isPrivate(a) ==
  /\ a.t = "v4"
  /\ \/ a.o[1] = 10
     \/ a.o[1] = 192 /\ a.o[2] = 168
     \/ a.o[1] = 172 /\ a.o[2] \in 16..31

\* ip.cidrSubnet(subnet).contains(a): the address masked to 24 bits is the
\* network address; ip.toBuffer throws 'Invalid ip address' for a text that
\* is no address
contains(subnet, a) ==
  IF a.t # "v4" THEN "throws"
  ELSE IF SubSeq(a.o, 1, 3) = subnet THEN "true"
  ELSE "false"

restrictToWifi(s, xff, remote) ==
  LET a == clientIp(s, xff, remote)
      inside == contains(CAFE_WIFI_SUBNET(s), a)
  IN IF s = "part_002"
     THEN IF ~isPrivate(a) THEN "forbidden"
          ELSE IF inside = "throws" THEN "internal"
          ELSE IF inside = "false" THEN "forbidden"
          ELSE "next"
     ELSE IF a = Text("unknown") THEN "forbidden"
          ELSE IF inside = "throws" THEN "internal"
          ELSE IF inside = "false" THEN "forbidden"
          ELSE "next"

\* one request through the guard
Guard(r) ==
  /\ slot[r].pc = "idle"
  /\ \E xff \in XffIn, remote \in RemoteIn :
       slot' = [slot EXCEPT ![r] =
                  [Idle EXCEPT !.pc = "done", !.op = "guard",
                               !.code = restrictToWifi(srv, xff, remote),
                               !.ip = [xff |-> xff, remote |-> remote]]]
  /\ UNCHANGED <<config, orders>>

\* ------------------------------------------------- rateLimit
\* rateLimit({ windowMs: 15 * 60 * 1000, max: 5 }): the limit per window
max == 5

\* a POST /api/orders of client r arrives and is handled.  No server file
\* requires middleware/rateLimit.js, so the request reaches the handler
\* whatever the number of requests the client has sent in the current window;
\* hits counts them (the count the limiter would keep).
CreateAttempt(r, Reqs, capacity) ==
  /\ hits[r] <= max
  /\ Create(r, Reqs, capacity)
  /\ hits' = [hits EXCEPT ![r] = @ + 1]

\* windowMs has passed: a new window begins
WindowExpires ==
  /\ \E r \in DOMAIN hits : hits[r] > 0
  /\ hits' = [r \in DOMAIN hits |-> 0]
  /\ UNCHANGED <<config, orders, slot>>

\* -------------------------------------------------------- specifications
Clients == {1, 2}
One == {1}

Init ==
  /\ srv \in Servers
  /\ settings = Settings
  /\ zone = 0
  /\ orders = <<>>
  /\ slot = [r \in Clients |-> Idle]
  /\ hits = [r \in Clients |-> 0]
  /\ now = Start

\* requests handled one after the other, drawn from the wide request sets;
\* the store holds one order less than under SpecConc
Next ==
  /\ \E r \in One :
       \/ Create(r, CreateReqs, MaxOrders - 1)
       \/ BeginUpdate(r, UpdateReqs)
       \/ WriteUpdate(r)
       \/ BeginPay(r, PayIn)
       \/ WritePay(r)
       \/ Respond(r)
  /\ UNCHANGED <<hits, now>>

Spec == Init /\ [][Next]_vars

\* requests of several clients handled at once, drawn from the narrow
\* request sets
NextConc ==
  /\ \E r \in Clients :
       \/ Create(r, ConcCreateReqs, MaxOrders)
       \/ BeginUpdate(r, ConcUpdateReqs)
       \/ WriteUpdate(r)
       \/ BeginPay(r, ConcPayIn)
       \/ WritePay(r)
       \/ Respond(r)
  /\ UNCHANGED <<hits, now>>

SpecConc == Init /\ [][NextConc]_vars

\* the geofenced file under each cafe_settings row, creations only
InitGeo ==
  /\ srv = "index_b"
  /\ settings \in CafeRows
  /\ zone = 0
  /\ orders = <<>>
  /\ slot = [r \in Clients |-> Idle]
  /\ hits = [r \in Clients |-> 0]
  /\ now = Start

NextGeo ==
  /\ \E r \in One :
       \/ Create(r, GeoCreateReqs, MaxOrders)
       \/ Respond(r)
  /\ UNCHANGED <<hits, now>>

SpecGeo == InitGeo /\ [][NextGeo]_vars

\* the network guard on its own, under either file that holds it
InitWifi ==
  /\ srv \in Guards
  /\ settings = Settings
  /\ zone = 0
  /\ orders = <<>>
  /\ slot = [r \in Clients |-> Idle]
  /\ hits = [r \in Clients |-> 0]
  /\ now = Start

NextWifi ==
  /\ \E r \in Clients :
       \/ Guard(r)
       \/ Respond(r)
  /\ UNCHANGED <<hits, now>>

SpecWifi == InitWifi /\ [][NextWifi]_vars

\* the order routes and the analytics, one request at a time, over two days
InitStats ==
  /\ srv \in Servers \cup {"part_000"}
  /\ settings = Settings
  /\ zone \in ServerZones
  /\ orders = <<>>
  /\ slot = [r \in Clients |-> Idle]
  /\ hits = [r \in Clients |-> 0]
  /\ now = Start

NextStats ==
  \/ /\ \E r \in One :
          \/ Create(r, StatsCreateReqs, MaxOrders)
          \/ BeginUpdate(r, StatsUpdateReqs)
          \/ WriteUpdate(r)
          \/ BeginPay(r, StatsPayIn)
          \/ WritePay(r)
          \/ Analytics(r)
          \/ Respond(r)
     /\ UNCHANGED <<hits, now>>
  \/ Tick

SpecStats == InitStats /\ [][NextStats]_vars

\* creations of two clients, counted per window
NextRate ==
  /\ \/ \E r \in Clients :
          \/ CreateAttempt(r, RateCreateReqs, MaxOrders)
          \/ Respond(r) /\ UNCHANGED hits
     \/ WindowExpires
  /\ UNCHANGED now

SpecRate == Init /\ [][NextRate]_vars

TypeOK ==
  /\ srv \in Servers \cup Guards \cup {"part_000"}
  /\ Len(orders) <= MaxOrders
  /\ \A i \in DOMAIN orders : orders[i].status \in {"pending", "paid"}

\* ================================================================ claims
Done(r, op) == slot[r].pc = "done" /\ slot[r].op = op

\* C1: an update addressed to an order that is paid is answered "can only
\* update pending orders" whatever its payload, and never gets to write the
\* order.
C1_UpdateOnPaidRejected ==
  \A r \in Clients :
    slot[r].op = "update" /\ slot[r].was = "paid" =>
      slot[r].pc = "done" /\ slot[r].code = "not_pending"

\* C2: a markPaid write on an order that is already paid changes no field of
\* any order.
C2_PaidOrderNotRepaid ==
  [][\A r \in Clients :
       /\ slot[r].op = "pay" /\ slot[r].pc = "write" /\ slot'[r].pc = "done"
       /\ orders[slot[r].id].status = "paid"
       => orders' = orders]_vars

\* C3: an update that found its order pending never writes items after the
\* order has become paid.
C3_NoUpdateWriteAfterPaid ==
  \A r \in Clients :
    Done(r, "update") /\ slot[r].code = "ok" /\ slot[r].was = "pending" =>
      slot[r].at = "pending"

\* C4: of two markPaid requests with different payment types that both
\* arrived while the order was pending, at most one succeeds.
C4_OnePaymentWins ==
  \A r1, r2 \in Clients :
    /\ r1 # r2
    /\ Done(r1, "pay") /\ Done(r2, "pay")
    /\ slot[r1].id = slot[r2].id
    /\ slot[r1].was = "pending" /\ slot[r2].was = "pending"
    /\ slot[r1].ptype # slot[r2].ptype
    => ~(slot[r1].code = "ok" /\ slot[r2].code = "ok")

\* C5: no step removes an order; every order is pending or paid, a new order
\* is pending, and a paid order stays paid.
C5_StatusMachine ==
  [][/\ Len(orders') >= Len(orders)
     /\ \A i \in DOMAIN orders' :
          /\ orders'[i].status \in {"pending", "paid"}
          /\ i \notin DOMAIN orders => orders'[i].status = "pending"
          /\ i \in DOMAIN orders =>
               \/ orders'[i].status = orders[i].status
               \/ orders[i].status = "pending" /\ orders'[i].status = "paid"]_vars

\* an update and a markPaid have both written an order that was already paid
C5_Witness ==
  /\ \E r \in Clients : Done(r, "pay") /\ slot[r].code = "ok" /\ slot[r].at = "paid"
  /\ \E r \in Clients : Done(r, "update") /\ slot[r].code = "ok" /\ slot[r].at = "paid"

PositiveInteger(v) == v.t = "number" /\ v.n > 0 /\ v.n % 2 = 0

NonNegative(v) == v.t = "number" /\ v.n >= 0

\* C6: the order a successful create has just inserted is pending and each of
\* its lines has a positive integer quantity and a non-negative price.
C6_CreatedOrderNormalized ==
  \A r \in Clients :
    Done(r, "create") /\ slot[r].code = "ok" =>
      LET o == orders[slot[r].id]
      IN /\ o.status = "pending"
         /\ \A k \in 1..Len(o.items) :
              PositiveInteger(o.items[k].quantity) /\ NonNegative(o.items[k].price)

RejectedEarlier ==
  {"bad_request", "coords_required", "forbidden", "invalid_table", "not_found",
   "not_pending"}

RejectedItems == {"missing_item_id", "invalid_items"}

\* C7: a create or update whose lines include one without item_id or one with
\* an item_id that is not in the menu is rejected (by the item validation
\* unless an earlier check rejected it) and writes nothing; the item
\* validation rejects no other request.
C7_ItemsRejectedExactly ==
  \A r \in Clients :
    slot[r].op \in {"create", "update"} =>
      /\ slot[r].sent.items \in {"no_item_id", "unknown_item"} =>
           slot[r].pc = "done" /\ slot[r].code \in RejectedEarlier \cup RejectedItems
      /\ slot[r].code \in RejectedItems =>
           slot[r].sent.items \in {"no_item_id", "unknown_item"}

\* C8 as stated: a create whose table_id names no table is answered "invalid
\* table".
C8_UnknownTableAnswer ==
  \A r \in Clients :
    Done(r, "create") /\ slot[r].sent.table = "unknown" =>
      slot[r].code = "invalid_table"

\* C8 as amended: a create whose table_id is missing or names no table fails
\* and inserts nothing; the answer is "invalid table" unless the input check
\* or the admission guard rejected the request first; every stored order's
\* table_id names a table.
C8_UnknownTableRejected ==
  /\ \A r \in Clients :
       Done(r, "create") /\ slot[r].sent.table # "exists" =>
         /\ slot[r].id = 0
         /\ slot[r].code \in {"bad_request", "coords_required", "forbidden", "invalid_table"}
         /\ slot[r].sent.table = "none" => slot[r].code = "bad_request"
         /\ slot[r].sent.table = "unknown"
            /\ slot[r].sent.items # "not_a_list"
            /\ (srv = "part_001" => slot[r].sent.items # "empty")
            /\ (srv = "index_b" => slot[r].sent.origin \in {"staff", "cafe"})
            => slot[r].code = "invalid_table"
  /\ \A i \in DOMAIN orders : orders[i].table_id \in Tables

\* a create naming an unknown table was answered "invalid table"
C8_Witness ==
  \E r \in Clients :
    Done(r, "create") /\ slot[r].sent.table = "unknown" /\ slot[r].code = "invalid_table"

\* C9: every stored order has at least one line and every line's item_id is
\* in the menu.
C9_ItemsNonEmptyAndKnown ==
  \A i \in DOMAIN orders :
    /\ orders[i].items # <<>>
    /\ \A k \in 1..Len(orders[i].items) : orders[i].items[k].item_id \in MenuIds

\* C10: every stored line of a menu item carries the menu's name, price and
\* category for that item, whatever the client sent.
C10_LinesFromCatalog ==
  \A i \in DOMAIN orders :
    \A k \in 1..Len(orders[i].items) :
      LET l == orders[i].items[k]
      IN l.item_id \in MenuIds =>
           /\ l.name = Menu[l.item_id].name
           /\ l.price = Menu[l.item_id].price
           /\ l.category = Menu[l.item_id].category

Numeric(v) == v.t = "number"

AdmissionRejections == {"coords_required", "forbidden"}

\* a create that got as far as the location check
ReachedAdmission(r) == Done(r, "create") /\ slot[r].code # "bad_request"

\* the distance from where the request was sent to the configured cafe
SentDistance(r) ==
  calculateDistance(slot[r].sent.latitude, slot[r].sent.longitude,
                    Num(settings.latitude), Num(settings.longitude))

\* C11: a create carrying the staff marker is never rejected by the location
\* check, whatever coordinates it carries; one without the marker is answered
\* "coordinates required" exactly when a coordinate is absent or not a number.
C11_AdmissionByMarkerAndCoords ==
  \A r \in Clients :
    ReachedAdmission(r) =>
      /\ slot[r].sent.waiter => slot[r].code \notin AdmissionRejections
      /\ ~slot[r].sent.waiter =>
           (slot[r].code = "coords_required"
              <=> ~(Numeric(slot[r].sent.latitude) /\ Numeric(slot[r].sent.longitude)))

\* C12: a create without the staff marker and with two numeric coordinates
\* (here: any latitude on the cafe's meridian) passes the location check if
\* and only if its distance to the cafe is at most the radius; otherwise it is
\* answered "forbidden" and inserts nothing.
C12_AdmittedIffWithinRadius ==
  \A r \in Clients :
    /\ ReachedAdmission(r) /\ ~slot[r].sent.waiter
    /\ Numeric(slot[r].sent.latitude)
    /\ slot[r].sent.longitude = Num(settings.longitude)
    => IF Greater(SentDistance(r), settings.geofence_radius_meters)
       THEN slot[r].code = "forbidden" /\ slot[r].id = 0
       ELSE slot[r].code \notin AdmissionRejections

\* C13: a create without the staff marker sent from the cafe's configured
\* latitude and longitude passes the location check, under every
\* cafe_settings row.
C13_CafePointAdmitted ==
  \A r \in Clients :
    /\ ReachedAdmission(r) /\ ~slot[r].sent.waiter
    /\ slot[r].sent.latitude = Num(settings.latitude)
    /\ slot[r].sent.longitude = Num(settings.longitude)
    => slot[r].code \notin AdmissionRejections

\* C14: a markPaid whose payment_type is missing or not one of UPI, Cash,
\* Bank, Card is answered "bad request", also when the order does not exist;
\* one with a valid payment_type for an order that does not exist is answered
\* "not found"; neither gets to write an order.
C14_PayRejections ==
  \A r \in Clients :
    slot[r].op = "pay" =>
      /\ slot[r].ptype \notin PaymentTypes =>
           slot[r].pc = "done" /\ slot[r].code = "bad_request"
      /\ slot[r].ptype \in PaymentTypes /\ slot[r].was = "none" =>
           slot[r].pc = "done" /\ slot[r].code = "not_found"

\* C15: a pending order has no payment_type and a paid order has one of UPI,
\* Cash, Bank, Card.
C15_PaymentTypeMatchesStatus ==
  \A i \in DOMAIN orders :
    /\ orders[i].status = "pending" => orders[i].payment_type = "null"
    /\ orders[i].status = "paid" => orders[i].payment_type \in PaymentTypes

\* the address the guard decides on lies in the configured subnet
InSubnet(r) ==
  LET a == clientIp(srv, slot[r].ip.xff, slot[r].ip.remote)
  IN a.t = "v4" /\ SubSeq(a.o, 1, 3) = CAFE_WIFI_SUBNET(srv)

\* C16: the guard calls next() only for a caller whose address lies in the
\* configured subnet, and answers every other caller, one without a usable
\* address included, with 403.
C16_GuardAdmitsSubnetOnly ==
  \A r \in Clients :
    Done(r, "guard") =>
      /\ slot[r].code = "next" => InSubnet(r)
      /\ ~InSubnet(r) => slot[r].code = "forbidden"

\* C17: in any one window at most max creation requests of a client reach
\* the handler.
C17_AtMostMaxPerWindow ==
  \A r \in Clients : hits[r] <= max

\* what the claims on the analytics expect: the rows of the answered query
\* whose items is a list, and exact sums over their lines
Listed(r) ==
  SelectSeq(Data(srv, orders, slot[r].query, slot[r].query.today),
            LAMBDA o : o.items_array)

NumericLines(r) ==
  \A i \in 1..Len(Listed(r)) :
    \A k \in 1..Len(Listed(r)[i].items) :
      Numeric(Listed(r)[i].items[k].price) /\ Numeric(Listed(r)[i].items[k].quantity)

RECURSIVE SumLines(_, _)
SumLines(lines, metric) ==
  IF lines = <<>> THEN 0
  ELSE SumLines(Tail(lines), metric)
       + (IF metric = "total-items-sold" THEN Head(lines).quantity.n
          ELSE Head(lines).price.n * Head(lines).quantity.n)

RECURSIVE SumOrders(_, _)
SumOrders(data, metric) ==
  IF data = <<>> THEN 0
  ELSE SumOrders(Tail(data), metric) + SumLines(Head(data).items, metric)

\* C18: the total revenue answered is the sum of price x quantity over the
\* lines of the paid orders of the query whose items is a list (stored prices
\* and quantities being numbers); an order whose items is not a list adds 0
\* and the request is answered.
C18_RevenueIsSumOfLines ==
  \A r \in Clients :
    Done(r, "total-revenue") /\ NumericLines(r) =>
      slot[r].answer = Whole(Num(SumOrders(Listed(r), "total-revenue")))

\* C19: the total of items sold answered is the sum of the stored quantities
\* of the lines of the paid orders of the query whose items is a list.
C19_ItemsSoldIsSumOfQuantities ==
  \A r \in Clients :
    Done(r, "total-items-sold") /\ NumericLines(r) =>
      slot[r].answer = Whole(Num(SumOrders(Listed(r), "total-items-sold")))

\* C20: the average order value answered, times the total-orders answer to
\* the same query, is the total-revenue answer to the same query, and it is 0
\* when total-orders is 0.
C20_AovIsRevenuePerOrder ==
  \A r \in Clients :
    Done(r, "average-order-value") =>
      LET data == Data(srv, orders, slot[r].query, slot[r].query.today)
          N == totalOrders(srv, data).n
          R == totalRevenue(srv, data)
      IN IF N = 0 THEN slot[r].answer = Whole(Num(0))
         ELSE /\ slot[r].answer.t = "number" /\ R.t = "number"
              /\ slot[r].answer.n * N = R.n * slot[r].answer.d

\* the lines of the orders, in the order of the scan
RECURSIVE Flat(_)
Flat(data) == IF data = <<>> THEN <<>> ELSE Head(data).items \o Flat(Tail(data))

RECURSIVE SoldOf(_, _)
SoldOf(lines, name) ==
  IF lines = <<>> THEN 0
  ELSE SoldOf(Tail(lines), name)
       + (IF Head(lines).name = name THEN Head(lines).quantity.n ELSE 0)

\* the position of the first line that sells the most, by summed quantity
FirstBest(lines) ==
  CHOOSE k \in 1..Len(lines) :
    /\ \A j \in 1..Len(lines) : SoldOf(lines, lines[j].name) <= SoldOf(lines, lines[k].name)
    /\ \A j \in 1..(k - 1) : SoldOf(lines, lines[j].name) < SoldOf(lines, lines[k].name)

\* C21: most-sold-item answers the name with the highest summed quantity over
\* the lines of the paid orders of the query, the name met first in the scan
\* among those that share the maximum, and {name: "N/A", totalSold: 0} when
\* no order matches.
C21_MostSoldIsFirstMaximum ==
  \A r \in Clients :
    Done(r, "most-sold-item") /\ NumericLines(r) =>
      LET data == Data(srv, orders, slot[r].query, slot[r].query.today)
          lines == Flat(Listed(r))
      IN /\ data = <<>> => slot[r].label = "N/A" /\ slot[r].answer = Whole(Num(0))
         /\ lines # <<>> =>
              /\ slot[r].label = lines[FirstBest(lines)].name
              /\ slot[r].answer = Whole(Num(SoldOf(lines, lines[FirstBest(lines)].name)))

\* the number of orders of each hour of the day at the cafe's offset
CafeHours(data) ==
  [h \in 0..23 |-> Cardinality({i \in 1..Len(data) : HourIn(data[i].created_at, IST) = h})]

\* C22: peak-hours counts each paid order of the query under the hour of its
\* created_at at the cafe's fixed offset, and answers the hour with the
\* highest count, the lowest one among equals, as "H:00-(H+1):00"; it answers
\* "N/A" exactly when no order is counted.
C22_PeakHourIsFirstMaximum ==
  \A r \in Clients :
    Done(r, "peak-hours") =>
      LET data == Data(srv, orders, slot[r].query, slot[r].query.today)
          h == peakHourIndex(CafeHours(data))
      IN IF data = <<>> THEN slot[r].label = "N/A"
         ELSE slot[r].label = ToString(h) \o ":00-" \o ToString(h + 1) \o ":00"

\* the calendar day of an instant at the cafe's offset
CafeDay(t) == (t + IST) \div 48

\* the window of a query: both bounds, inclusive, or else the cafe's today
InWindow(o, q) ==
  IF q.startDate # 0 /\ q.endDate # 0
  THEN q.startDate <= o.created_at /\ o.created_at <= q.endDate
  ELSE CafeDay(o.created_at) = CafeDay(q.today)

\* C23: the orders counted are the paid orders whose created_at is within
\* [startDate, endDate], bounds included; a request without both bounds
\* counts the paid orders of the current calendar day at the cafe's offset.
C23_WindowOrCafeToday ==
  \A r \in Clients :
    Done(r, "total-orders") =>
      slot[r].answer =
        Whole(Num(Cardinality({i \in 1..Len(orders) :
                                 orders[i].status = "paid" /\ InWindow(orders[i], slot[r].query)})))

IsAnalytics(r) == slot[r].pc = "idle" /\ slot'[r].pc = "done" /\ slot'[r].op \in Metrics

\* the answers when no paid order is in the window
ZeroAnswers(r) ==
  /\ slot[r].op \in Metrics \ {"most-sold-item", "peak-hours", "total-items-sold"} =>
       slot[r].answer = Whole(Num(0))
  /\ slot[r].op = "most-sold-item" =>
       slot[r].label = "N/A" /\ slot[r].answer = Whole(Num(0))
  /\ slot[r].op = "peak-hours" => slot[r].label = "N/A"

\* C24: an analytics request leaves every stored order as it was, and with no
\* paid order in the window it answers totalOrders 0, totalRevenue 0,
\* averageOrderValue 0, mostSoldItem {"N/A", 0} and peakHour "N/A".
C24_ReadOnlyAndZeroCase ==
  /\ [][\A r \in Clients : IsAnalytics(r) => orders' = orders]_vars
  /\ [](\A r \in Clients :
          slot[r].pc = "done" /\ slot[r].op \in Metrics
          /\ Data(srv, orders, slot[r].query, slot[r].query.today) = <<>>
          => ZeroAnswers(r))

\* a create sent without the staff marker, and without a coordinate or from
\* 222 m north of the cafe, to the file that has the location check
FailsAdmission(r) ==
  Done(r, "create") /\ srv = "index_b" /\ slot[r].sent.origin \in {"no_coords", "far"}

AdmissionAnswer(r) ==
  IF slot[r].sent.origin = "no_coords" THEN "coords_required" ELSE "forbidden"

\* C25 as stated: a create that fails the location check is answered with
\* the location check's error, whatever its table_id and its items are.
C25_AdmissionAnswersFirst ==
  \A r \in Clients : FailsAdmission(r) => slot[r].code = AdmissionAnswer(r)

\* C25 as amended: the input check (table_id present, items an array) comes
\* first; a create that passes it and fails the location check is answered
\* with the location check's error even if its table_id names no table or
\* its items are not in the menu, and the step inserts nothing.
C25_AdmissionBeforeValidator ==
  [][\A r \in Clients :
       /\ slot[r].pc = "idle" /\ FailsAdmission(r)'
       /\ slot'[r].sent.table # "none" /\ slot'[r].sent.items # "not_a_list"
       => slot'[r].code = AdmissionAnswer(r)' /\ orders' = orders]_vars

\* a create naming no table and unknown items, sent from outside the radius,
\* was answered "forbidden"
C25_Witness ==
  \E r \in Clients :
    /\ FailsAdmission(r) /\ slot[r].sent.origin = "far"
    /\ slot[r].sent.table = "unknown" /\ slot[r].sent.items = "unknown_item"
    /\ slot[r].code = "forbidden"

\* the step in which client r's update writes the order and is answered 200
UpdateWrites(r) ==
  /\ slot[r].pc = "write" /\ slot[r].op = "update"
  /\ slot'[r].pc = "done" /\ slot'[r].code = "ok"

\* C26: the step in which a successful update writes gives the order the
\* request's items and notes (null for none) and changes nothing else of it,
\* nor any other order.
C26_UpdateWritesItemsAndNotes ==
  [][\A r \in Clients :
       UpdateWrites(r) =>
         orders' = [orders EXCEPT ![slot[r].id] =
                      [@ EXCEPT !.items = slot[r].items,
                                !.items_array = slot[r].isArray,
                                !.notes = StrOr(slot[r].notes, "null")]]]_vars

\* the step in which client r's create is answered
CreateAnswered(r) ==
  slot[r].pc = "idle" /\ slot'[r].pc = "done" /\ slot'[r].op = "create"

C29_RepeatedItemRejected ==
  \A r \in Clients :
    /\ slot[r].sent.items = "repeated_item"
    /\ \/ Done(r, "create") /\ slot[r].sent.table = "exists"
          /\ (srv = "index_b" => slot[r].sent.origin \in {"staff", "cafe"})
       \/ slot[r].op = "update" /\ slot[r].was = "pending"
    => slot[r].pc = "done" /\ slot[r].code = "invalid_items"

\* C30: the step in which a successful update writes sets the order's notes
\* to null when the request has no notes or empty notes, and leaves it the
\* notes it had only when the request carries those very notes.
C30_OmittedNotesBecomeNull ==
  [][\A r \in Clients :
       UpdateWrites(r) =>
         LET id == slot[r].id
         IN /\ slot[r].notes \in {"undefined", ""} => orders'[id].notes = "null"
            /\ orders'[id].notes = orders[id].notes /\ orders[id].notes # "null"
               => slot[r].notes = orders[id].notes]_vars

\* an update without notes was answered 200 for an order that had notes, and
\* the order has none now
C30_Witness ==
  \E r \in Clients :
    /\ Done(r, "update") /\ slot[r].code = "ok" /\ slot[r].had = "n"
    /\ orders[slot[r].id].notes = "null"

====
